---------------------------- MODULE Spec2Model ----------------------------
(***************************************************************************)
(* Model of graph.py: class connectedComponentsLabeler, the connected       *)
(* components labeler used by Geodatabase.findConnectedComponents.          *)
(*                                                                          *)
(* Python lists are modelled as functions over 0..n-1 so that the indices   *)
(* of the model are the indices of the code.  The dictionaries hash2seq     *)
(* and seq2hash are attributes of the class (graph.py lines 15-16) and are  *)
(* never rebound on an instance, so one pair of variables holds them for    *)
(* every labeler.  edges, hashes, numberOfNodes and forest are rebound on   *)
(* the instance by __init__ and live in the labeler's record.               *)
(***************************************************************************)
EXTENDS Integers, Sequences, FiniteSets, TLC

VARIABLES hash2seq, seq2hash, lab, last, db, fs, ret, issued

vars == <<hash2seq, seq2hash, lab, last, db, fs, ret, issued>>

(***************************************************************************)
(* Bounds of the model.                                                     *)
(***************************************************************************)
MaxEdges == 2
MaxChain == 4
MaxPairKeys == 3
StackBound == 2
MaxRows == 1
MaxLinkNodes == 3
MaxLinks == 2

SmallKeys == {"A", "B", "C"}
TestKeys == {"A", "B", "C", "D", "E", "F", "G"}
KeyOrder == <<"A", "B", "C", "D", "E", "F", "G">>
Labelers == {"L1", "L2"}

Edge(x, y) == [a |-> x, b |-> y]

RECURSIVE SeqsUpTo(_, _)
SeqsUpTo(S, n) ==
  IF n = 0 THEN {<< >>}
  ELSE LET shorter == SeqsUpTo(S, n - 1)
       IN  shorter \cup {Append(s, x) : s \in {t \in shorter : Len(t) = n - 1}, x \in S}

SmallEdges == {Edge(x, y) : x \in SmallKeys, y \in SmallKeys}
SmallInputs == SeqsUpTo(SmallEdges, MaxEdges)

\* The graph of test_findConnectedComponents.
TestGraph ==
  << Edge("A", "B"), Edge("A", "D"), Edge("B", "C"), Edge("B", "E"), Edge("F", "G") >>

\* The chain (1,2),(2,3),...,(n-1,n) over the first n keys, in that order.
Chain(n) == [i \in 1..(n - 1) |-> Edge(KeyOrder[i], KeyOrder[i + 1])]
ChainInputs == {Chain(n) : n \in 2..MaxChain}

(***************************************************************************)
(* Python values.                                                           *)
(***************************************************************************)
\* None: what pd.read_sql gives for a NULL of a text column.  It is hashable
\* and equal to itself, so a set and a dictionary take it as any other key.
PyNone == "None"

\* One edge with a NULL source or target key.
NullInputs ==
  {<< Edge(x, y) >> : x \in {PyNone}, y \in SmallKeys \cup {PyNone}}
    \cup {<< Edge(x, y) >> : x \in SmallKeys, y \in {PyNone}}

\* len(list)
PyLen(list) == Cardinality(DOMAIN list)

\* list(range(0, n))
PyRange(n) == [i \in 0..(n - 1) |-> i]

\* list[i] is defined for -len <= i < len; a negative i counts from the end.
PyInRange(list, i) == (-PyLen(list) <= i) /\ (i < PyLen(list))
PyIndex(list, i) == IF i < 0 THEN i + PyLen(list) ELSE i

\* dict[key] = value
DictSet(dict, key, value) ==
  [x \in (DOMAIN dict) \cup {key} |-> IF x = key THEN value ELSE dict[x]]

\* set(edges["a"]).union(edges["b"])
KeySet(edges) ==
  {edges[i].a : i \in DOMAIN edges} \cup {edges[i].b : i \in DOMAIN edges}

\* [h for h in set]: a set is iterated in an order the language leaves open,
\* so the list is any arrangement of its elements.
RECURSIVE Arrangements(_)
Arrangements(S) ==
  IF S = {} THEN {<< >>}
  ELSE UNION {{Append(p, x) : p \in Arrangements(S \ {x})} : x \in S}

ListsOfSet(S) == {[i \in 0..(Len(p) - 1) |-> p[i + 1]] : p \in Arrangements(S)}

\* Variant of line 30 that lists both columns without building the set.
HashesNoSet(edges) ==
  {[i \in 0..(2 * Len(edges) - 1) |->
      IF i < Len(edges) THEN edges[i + 1].a ELSE edges[i - Len(edges) + 1].b]}

\* line 30: the values self.hashes can take for an edge list.
Hashes(edges) == ListsOfSet(KeySet(edges))

\* Variant of connectedComponentIdentifier that makes the node its own root
\* (line 52 as self.forest[node] = node).
RECURSIVE connectedComponentIdentifierDetach(_, _)
connectedComponentIdentifierDetach(forest, node) ==
  IF ~PyInRange(forest, node)
  THEN [forest |-> forest, r |-> node, depth |-> 1, err |-> TRUE]
  ELSE IF forest[PyIndex(forest, node)] # node
       THEN LET sub == connectedComponentIdentifierDetach(forest, forest[PyIndex(forest, node)])
            IN  IF sub.err
                THEN [forest |-> forest, r |-> node, depth |-> sub.depth + 1, err |-> TRUE]
                ELSE [forest |-> [sub.forest EXCEPT ![PyIndex(forest, node)] = node],
                      r |-> sub.r, depth |-> sub.depth + 1, err |-> FALSE]
       ELSE [forest |-> forest, r |-> node, depth |-> 1, err |-> FALSE]

\* Variant of connectedComponentIdentifier without the assignment of line 52.
RECURSIVE connectedComponentIdentifierNoRelink(_, _)
connectedComponentIdentifierNoRelink(forest, node) ==
  IF ~PyInRange(forest, node)
  THEN [forest |-> forest, r |-> node, depth |-> 1, err |-> TRUE]
  ELSE IF forest[PyIndex(forest, node)] # node
       THEN LET sub == connectedComponentIdentifierNoRelink(forest, forest[PyIndex(forest, node)])
            IN  [forest |-> forest, r |-> sub.r, depth |-> sub.depth + 1, err |-> sub.err]
       ELSE [forest |-> forest, r |-> node, depth |-> 1, err |-> FALSE]

(***************************************************************************)
(* connectedComponentIdentifier(node): result of the call on a forest.      *)
(*   forest: the forest after the call, r: the returned value,              *)
(*   depth: number of nested activations, err: IndexError was raised.       *)
(* An IndexError is raised by the innermost activation before any           *)
(* assignment is made, so the forest is left as it was.                     *)
(***************************************************************************)
RECURSIVE connectedComponentIdentifier(_, _)
connectedComponentIdentifier(forest, node) ==
  IF ~PyInRange(forest, node)
  THEN [forest |-> forest, r |-> node, depth |-> 1, err |-> TRUE]
  ELSE IF forest[PyIndex(forest, node)] # node
       THEN LET sub == connectedComponentIdentifier(forest, forest[PyIndex(forest, node)])
            IN  IF sub.err
                THEN [forest |-> forest, r |-> node, depth |-> sub.depth + 1, err |-> TRUE]
                ELSE [forest |-> [sub.forest EXCEPT ![PyIndex(forest, node)] = sub.r],
                      r |-> sub.r, depth |-> sub.depth + 1, err |-> FALSE]
       ELSE [forest |-> forest, r |-> node, depth |-> 1, err |-> FALSE]

Max(x, y) == IF x >= y THEN x ELSE y

\* Variant of link that makes nodeA its own root when the two roots are
\* equal (line 73 followed by else: self.forest[nodeA] = nodeA).
linkDetaching(forest, nodeA, nodeB) ==
  LET ccA == connectedComponentIdentifier(forest, nodeA)
  IN  IF ccA.err
      THEN [forest |-> forest, depth |-> ccA.depth, err |-> TRUE]
      ELSE LET ccB == connectedComponentIdentifier(ccA.forest, nodeB)
           IN  IF ccB.err
               THEN [forest |-> ccA.forest, depth |-> Max(ccA.depth, ccB.depth), err |-> TRUE]
               ELSE [forest |-> IF ccA.r # ccB.r
                                THEN [ccB.forest EXCEPT ![ccA.r] = ccB.r]
                                ELSE [ccB.forest EXCEPT ![PyIndex(forest, nodeA)] =
                                                          PyIndex(forest, nodeA)],
                     depth |-> Max(ccA.depth, ccB.depth), err |-> FALSE]

\* Variant of link that hangs the common root under nodeA when the two roots
\* are equal (line 73 followed by else: self.forest[ccA] = nodeA).
linkBack(forest, nodeA, nodeB) ==
  LET ccA == connectedComponentIdentifier(forest, nodeA)
  IN  IF ccA.err
      THEN [forest |-> forest, depth |-> ccA.depth, err |-> TRUE]
      ELSE LET ccB == connectedComponentIdentifier(ccA.forest, nodeB)
           IN  IF ccB.err
               THEN [forest |-> ccA.forest, depth |-> Max(ccA.depth, ccB.depth), err |-> TRUE]
               ELSE [forest |-> IF ccA.r # ccB.r
                                THEN [ccB.forest EXCEPT ![ccA.r] = ccB.r]
                                ELSE [ccB.forest EXCEPT ![ccA.r] = PyIndex(forest, nodeA)],
                     depth |-> Max(ccA.depth, ccB.depth), err |-> FALSE]

\* Variant of link that attaches the root of nodeB under the root of nodeA
\* (line 74 as self.forest[ccB] = ccA).
linkReversed(forest, nodeA, nodeB) ==
  LET ccA == connectedComponentIdentifier(forest, nodeA)
  IN  IF ccA.err
      THEN [forest |-> forest, depth |-> ccA.depth, err |-> TRUE]
      ELSE LET ccB == connectedComponentIdentifier(ccA.forest, nodeB)
           IN  IF ccB.err
               THEN [forest |-> ccA.forest, depth |-> Max(ccA.depth, ccB.depth), err |-> TRUE]
               ELSE [forest |-> IF ccA.r # ccB.r
                                THEN [ccB.forest EXCEPT ![ccB.r] = ccA.r]
                                ELSE ccB.forest,
                     depth |-> Max(ccA.depth, ccB.depth), err |-> FALSE]

\* Variant of link that redirects nodeA itself instead of its root
\* (line 74 as self.forest[nodeA] = ccB).
linkNode(forest, nodeA, nodeB) ==
  LET ccA == connectedComponentIdentifier(forest, nodeA)
  IN  IF ccA.err
      THEN [forest |-> forest, depth |-> ccA.depth, err |-> TRUE]
      ELSE LET ccB == connectedComponentIdentifier(ccA.forest, nodeB)
           IN  IF ccB.err
               THEN [forest |-> ccA.forest, depth |-> Max(ccA.depth, ccB.depth), err |-> TRUE]
               ELSE [forest |-> IF ccA.r # ccB.r
                                THEN [ccB.forest EXCEPT ![PyIndex(forest, nodeA)] = ccB.r]
                                ELSE ccB.forest,
                     depth |-> Max(ccA.depth, ccB.depth), err |-> FALSE]

(***************************************************************************)
(* link(nodeA, nodeB): result of the call on a forest.                      *)
(***************************************************************************)
link(forest, nodeA, nodeB) ==
  LET ccA == connectedComponentIdentifier(forest, nodeA)
  IN  IF ccA.err
      THEN [forest |-> forest, depth |-> ccA.depth, err |-> TRUE]
      ELSE LET ccB == connectedComponentIdentifier(ccA.forest, nodeB)
           IN  IF ccB.err
               THEN [forest |-> ccA.forest, depth |-> Max(ccA.depth, ccB.depth), err |-> TRUE]
               ELSE [forest |-> IF ccA.r # ccB.r
                                THEN [ccB.forest EXCEPT ![ccA.r] = ccB.r]
                                ELSE ccB.forest,
                     depth |-> Max(ccA.depth, ccB.depth), err |-> FALSE]

(***************************************************************************)
(* simplifyForest(): for i in range(0, len(forest)):                        *)
(*                       forest[i] = connectedComponentIdentifier(i)        *)
(***************************************************************************)
RECURSIVE simplifyFrom(_, _, _)
simplifyFrom(forest, i, depth) ==
  IF i >= PyLen(forest)
  THEN [forest |-> forest, depth |-> depth, err |-> FALSE]
  ELSE LET cc == connectedComponentIdentifier(forest, i)
       IN  simplifyFrom([cc.forest EXCEPT ![i] = cc.r], i + 1, Max(depth, cc.depth))

\* Variant of simplifyForest that follows one link only
\* (line 85 as self.forest[i] = self.forest[self.forest[i]]).
RECURSIVE oneHopFrom(_, _)
oneHopFrom(forest, i) ==
  IF i >= PyLen(forest)
  THEN [forest |-> forest, depth |-> 0, err |-> FALSE]
  ELSE oneHopFrom([forest EXCEPT ![i] = forest[forest[i]]], i + 1)

simplifyForestOneHop(forest) == oneHopFrom(forest, 0)

simplifyForest(forest) == simplifyFrom(forest, 0, 0)

\* pd.DataFrame({'id': hashes, 'cc': forest}): one row per position.
DataFrame(hashes, forest) ==
  [i \in DOMAIN hashes |-> [id |-> hashes[i], cc |-> forest[i]]]

(***************************************************************************)
(* A labeler object.  Before __init__ has rebound them, the attributes of   *)
(* an instance are those of the class (lines 17-20).                        *)
(***************************************************************************)
NewLabeler ==
  [pc |-> "new", edges |-> << >>, hashes |-> << >>, numberOfNodes |-> 0,
   forest |-> << >>, k |-> 0, returned |-> FALSE, out |-> << >>]

\* The call made last: its name, the labeler it was made on, the deepest
\* nesting of connectedComponentIdentifier activations it reached and whether
\* it raised.
NoCall == [op |-> "none", l |-> "L1", depth |-> 0, err |-> FALSE]

Call(op, l, depth, err) == [op |-> op, l |-> l, depth |-> depth, err |-> err]

\* The call made last on the database or on the files: its name, the table
\* or the file it was to write, whether it raised, the relation or the flag
\* it returned and whether it sent a request.
NoReturn ==
  [op |-> "none", target |-> << >>, raised |-> FALSE, frame |-> << >>,
   flag |-> FALSE, requested |-> FALSE]

Return(op, target, raised, frame, flag, requested) ==
  [op |-> op, target |-> target, raised |-> raised, frame |-> frame,
   flag |-> flag, requested |-> requested]

(***************************************************************************)
(* __init__ in steps.  A world is the class dictionaries and one labeler.   *)
(***************************************************************************)
World(h2s, s2h, o) == [hash2seq |-> h2s, seq2hash |-> s2h, o |-> o, depth |-> 0]

\* lines 28-30: self.edges = edges; self.hashes = [h for h in set(...)]
InitBegin(w, edges, hashes) ==
  [w EXCEPT !.o = [NewLabeler EXCEPT !.pc = "mapping", !.edges = edges,
                                     !.hashes = hashes, !.k = 0]]

\* Variant of lines 36-38 with one forest entry too many
\* (line 38 as range(0, self.numberOfNodes + 1)).
InitSizeOffByOne(w) ==
  [w EXCEPT !.o.numberOfNodes = PyLen(w.o.hashes),
            !.o.forest = PyRange(PyLen(w.o.hashes) + 1),
            !.o.k = 1,
            !.o.pc = IF Len(w.o.edges) = 0 THEN "ready" ELSE "ingesting"]

\* lines 36-38, reached when the loop of lines 32-34 is exhausted; with no
\* edge to ingest the loop of lines 40-41 is exhausted at once.
InitSize(w) ==
  [w EXCEPT !.o.numberOfNodes = PyLen(w.o.hashes),
            !.o.forest = PyRange(PyLen(w.o.hashes)),
            !.o.k = 1,
            !.o.pc = IF Len(w.o.edges) = 0 THEN "ready" ELSE "ingesting"]

\* Variant of lines 32-34 that keeps the entry of a key already mapped
\* (line 33 as self.hash2seq.setdefault(hash, seq)).
InitMapKeepExisting(w) ==
  IF w.o.k < PyLen(w.o.hashes)
  THEN [w EXCEPT !.hash2seq = IF w.o.hashes[w.o.k] \in DOMAIN w.hash2seq
                              THEN w.hash2seq
                              ELSE DictSet(w.hash2seq, w.o.hashes[w.o.k], w.o.k),
                 !.seq2hash = DictSet(w.seq2hash, w.o.k, w.o.hashes[w.o.k]),
                 !.o.k = w.o.k + 1]
  ELSE InitSize(w)

\* lines 32-34: one turn of the loop over zip(hashes, range(len(hashes)))
InitMap(w) ==
  IF w.o.k < PyLen(w.o.hashes)
  THEN [w EXCEPT !.hash2seq = DictSet(w.hash2seq, w.o.hashes[w.o.k], w.o.k),
                 !.seq2hash = DictSet(w.seq2hash, w.o.k, w.o.hashes[w.o.k]),
                 !.o.k = w.o.k + 1]
  ELSE InitSize(w)

\* lines 40-41: one turn of the loop over edges.itertuples(); an exception
\* (KeyError of a dictionary, IndexError of link) leaves __init__ and no
\* labeler is returned.
InitIngest(w) ==
  LET row == w.o.edges[w.o.k]
      res == link(w.o.forest, w.hash2seq[row.a], w.hash2seq[row.b])
  IN  IF ~({row.a, row.b} \subseteq DOMAIN w.hash2seq)
      THEN [w EXCEPT !.o.pc = "failed"]
      ELSE IF res.err
      THEN [w EXCEPT !.o.pc = "failed", !.o.forest = res.forest,
                     !.depth = Max(w.depth, res.depth)]
      ELSE [w EXCEPT !.o.forest = res.forest,
                     !.o.k = w.o.k + 1,
                     !.o.pc = IF w.o.k = Len(w.o.edges) THEN "ready" ELSE "ingesting",
                     !.depth = Max(w.depth, res.depth)]

InitStep(w) ==
  IF w.o.pc = "mapping" THEN InitMap(w) ELSE InitIngest(w)

\* __init__ run from its first line to its end with nothing in between.
RECURSIVE InitRun(_)
InitRun(w) ==
  IF w.o.pc \in {"mapping", "ingesting"} THEN InitRun(InitStep(w)) ELSE w

connectedComponentsLabeler(h2s, s2h, edges, hashes) ==
  InitRun(InitBegin(World(h2s, s2h, NewLabeler), edges, hashes))

\* Variant of getConnectedCompontents without the call of line 89.
getConnectedCompontentsUnsimplified(o) ==
  [o EXCEPT !.returned = TRUE, !.out = DataFrame(o.hashes, o.forest)]

(***************************************************************************)
(* getConnectedCompontents(): simplifyForest, then the returned relation.   *)
(***************************************************************************)
getConnectedCompontents(o) ==
  LET res == simplifyForest(o.forest)
  IN  [o EXCEPT !.forest = res.forest, !.returned = TRUE,
                !.out = DataFrame(o.hashes, res.forest)]

(***************************************************************************)
(* Actions: calls made one after the other by a single thread.              *)
(***************************************************************************)
Init ==
  /\ hash2seq = << >>
  /\ seq2hash = << >>
  /\ lab = [l \in Labelers |-> NewLabeler]
  /\ last = NoCall
  /\ db = << >>
  /\ fs = << >>
  /\ ret = NoReturn
  /\ issued = {}

Construct(l, inputs) ==
  /\ lab[l].pc = "new"
  /\ \E edges \in inputs :
       \E hashes \in Hashes(edges) :
         LET w == connectedComponentsLabeler(hash2seq, seq2hash, edges, hashes)
         IN  /\ hash2seq' = w.hash2seq
             /\ seq2hash' = w.seq2hash
             /\ lab' = [lab EXCEPT ![l] = w.o]
             /\ last' = Call("init", l, w.depth, w.o.pc = "failed")
  /\ UNCHANGED <<db, fs, ret, issued>>

GetConnectedCompontents(l) ==
  /\ lab[l].pc = "ready"
  /\ lab' = [lab EXCEPT ![l] = getConnectedCompontents(lab[l])]
  /\ last' = Call("getConnectedCompontents", l,
                  simplifyForest(lab[l].forest).depth, FALSE)
  /\ UNCHANGED <<hash2seq, seq2hash, db, fs, ret, issued>>

SimplifyForest(l) ==
  /\ lab[l].pc = "ready"
  /\ LET res == simplifyForest(lab[l].forest)
     IN  /\ lab' = [lab EXCEPT ![l].forest = res.forest]
         /\ last' = Call("simplifyForest", l, res.depth, FALSE)
  /\ UNCHANGED <<hash2seq, seq2hash, db, fs, ret, issued>>

Nodes(l) == 0..(lab[l].numberOfNodes - 1)

ConnectedComponentIdentifier(l) ==
  /\ lab[l].pc = "ready"
  /\ \E node \in Nodes(l) :
       LET res == connectedComponentIdentifier(lab[l].forest, node)
       IN  /\ lab' = [lab EXCEPT ![l].forest = res.forest]
           /\ last' = Call("connectedComponentIdentifier", l, res.depth, res.err)
  /\ UNCHANGED <<hash2seq, seq2hash, db, fs, ret, issued>>

Link(l) ==
  /\ lab[l].pc = "ready"
  /\ \E nodeA \in Nodes(l), nodeB \in Nodes(l) :
       LET res == link(lab[l].forest, nodeA, nodeB)
       IN  /\ lab' = [lab EXCEPT ![l].forest = res.forest]
           /\ last' = Call("link", l, res.depth, res.err)
  /\ UNCHANGED <<hash2seq, seq2hash, db, fs, ret, issued>>

\* One labeler and its whole public surface.
Next ==
  \/ Construct("L1", SmallInputs)
  \/ GetConnectedCompontents("L1")
  \/ SimplifyForest("L1")
  \/ ConnectedComponentIdentifier("L1")
  \/ Link("L1")

Spec == Init /\ [][Next]_vars

\* The same calls with any integer near the forest as an index: Python
\* accepts what the list subscript accepts.
Indices(l) == (-(lab[l].numberOfNodes + 1))..lab[l].numberOfNodes

ConnectedComponentIdentifierAt(l) ==
  /\ lab[l].pc = "ready"
  /\ \E node \in Indices(l) :
       LET res == connectedComponentIdentifier(lab[l].forest, node)
       IN  /\ lab' = [lab EXCEPT ![l].forest = res.forest]
           /\ last' = Call("connectedComponentIdentifier", l, res.depth, res.err)
  /\ UNCHANGED <<hash2seq, seq2hash, db, fs, ret, issued>>

LinkAt(l) ==
  /\ lab[l].pc = "ready"
  /\ \E nodeA \in Indices(l), nodeB \in Indices(l) :
       LET res == link(lab[l].forest, nodeA, nodeB)
       IN  /\ lab' = [lab EXCEPT ![l].forest = res.forest]
           /\ last' = Call("link", l, res.depth, res.err)
  /\ UNCHANGED <<hash2seq, seq2hash, db, fs, ret, issued>>

NextIndex ==
  \/ Construct("L1", SmallInputs)
  \/ ConnectedComponentIdentifierAt("L1")
  \/ LinkAt("L1")

SpecIndex == Init /\ [][NextIndex]_vars

\* Geodatabase.findConnectedComponents: a labeler is built from the edges
\* read from the input table and asked for its components.
BatchInputs == SmallInputs \cup ChainInputs \cup {TestGraph} \cup NullInputs

NextBatch ==
  \/ Construct("L1", BatchInputs)
  \/ GetConnectedCompontents("L1")
  \/ SimplifyForest("L1")

SpecBatch == Init /\ [][NextBatch]_vars


\* Two labelers used one after the other by a single thread: every call runs
\* to its end before the next one starts.
\* The edge lists given to them: no edge, or one edge over the first keys.
PairKeys == {KeyOrder[i] : i \in 1..MaxPairKeys}
PairInputs == {<< >>} \cup {<< Edge(x, y) >> : x \in PairKeys, y \in PairKeys}

NextSeq ==
  \E l \in Labelers :
    \/ Construct(l, PairInputs)
    \/ GetConnectedCompontents(l)

SpecSeq == Init /\ [][NextSeq]_vars

\* link and simplifyForest called in any order on one labeler.  issued keeps
\* the pairs of indices given to link since the construction.
\* The edge lists: n keys that no edge connects, or one edge.
IsolatedInputs ==
  {[i \in 1..n |-> Edge(KeyOrder[i], KeyOrder[i])] : n \in 1..MaxLinkNodes}

LinkRecorded(l) ==
  /\ lab[l].pc = "ready"
  /\ Cardinality(issued) < MaxLinks
  /\ \E nodeA \in Nodes(l), nodeB \in Nodes(l) :
       LET res == link(lab[l].forest, nodeA, nodeB)
       IN  /\ lab' = [lab EXCEPT ![l].forest = res.forest]
           /\ last' = Call("link", l, res.depth, res.err)
           /\ issued' = issued \cup {{nodeA, nodeB}}
  /\ UNCHANGED <<hash2seq, seq2hash, db, fs, ret>>

NextLinks ==
  \/ Construct("L1", IsolatedInputs \cup PairInputs)
  \/ LinkRecorded("L1")
  \/ SimplifyForest("L1")

SpecLinks == Init /\ [][NextLinks]_vars

\* The calls that read and write the forest, in any order, on a labeler of
\* keys that its edges leave apart.
NextForest ==
  \/ Construct("L1", IsolatedInputs)
  \/ Link("L1")
  \/ ConnectedComponentIdentifier("L1")
  \/ SimplifyForest("L1")

SpecForest == Init /\ [][NextForest]_vars

\* Two labelers built by two threads: the interpreter may switch threads
\* between two turns of the loops of __init__.
BeginInit(l, inputs) ==
  /\ lab[l].pc = "new"
  /\ \E edges \in inputs :
       \E hashes \in Hashes(edges) :
         lab' = [lab EXCEPT
                   ![l] = InitBegin(World(hash2seq, seq2hash, lab[l]), edges, hashes).o]
  /\ last' = Call("init", l, 0, FALSE)
  /\ UNCHANGED <<hash2seq, seq2hash, db, fs, ret, issued>>

InitTurn(l, pc) ==
  /\ lab[l].pc = pc
  /\ LET w == InitStep(World(hash2seq, seq2hash, lab[l]))
     IN  /\ hash2seq' = w.hash2seq
         /\ seq2hash' = w.seq2hash
         /\ lab' = [lab EXCEPT ![l] = w.o]
         /\ last' = Call("init", l, w.depth, w.o.pc = "failed")
  /\ UNCHANGED <<db, fs, ret, issued>>

MapTurn(l) == InitTurn(l, "mapping")

IngestTurn(l) == InitTurn(l, "ingesting")

NextConc ==
  \E l \in Labelers :
    \/ BeginInit(l, PairInputs)
    \/ MapTurn(l)
    \/ IngestTurn(l)
    \/ GetConnectedCompontents(l)

SpecConc == Init /\ [][NextConc]_vars

(***************************************************************************)
(* The database of a Geodatabase.  db maps the name of every table that     *)
(* exists to its columns, its rows, whether its id is an integer primary    *)
(* key, whether its geometry is registered in geometry_columns and whether  *)
(* it has a spatial index.  A name is the list of the pieces an f-string    *)
(* puts together; no name is what None and '' are to "if not outputTable".  *)
(***************************************************************************)
NoName == << >>

TableNames == {<< "t01" >>, << "t02" >>}

\* Reference systems, by the digits an f-string writes for them.
Srids == {"4326", "31370"}

Table(cols, pk, rows) ==
  [cols |-> cols, pk |-> pk, rows |-> rows, registered |-> FALSE, indexed |-> FALSE]

DictDel(dict, key) == [x \in (DOMAIN dict) \ {key} |-> dict[x]]

Columns(table) == {table.cols[i] : i \in DOMAIN table.cols}

\* What a call leaves: the database, whether it raised, the relation it read
\* or returned.
Outcome(d, raised, frame) == [db |-> d, raised |-> raised, frame |-> frame]

\* DataFrame.to_sql(table, index=False, if_exists=...): the table is made
\* with the columns of the relation; an existing one is dropped first.
\* Variant that keeps the rows of an existing table (if_exists="append").
to_sqlAppend(d, table, cols, frame) ==
  IF table \in DOMAIN d
  THEN DictSet(d, table, [d[table] EXCEPT !.rows = d[table].rows \o frame])
  ELSE DictSet(d, table, Table(cols, FALSE, frame))

to_sql(d, table, cols, frame) == DictSet(d, table, Table(cols, FALSE, frame))

\* pd.read_sql("select {colA} as a, {colB} as b from {inputTable}"): raises
\* when the table or one of the columns does not exist.
read_sql(d, inputTable, colA, colB) ==
  IF inputTable \in DOMAIN d /\ {colA, colB} \subseteq Columns(d[inputTable])
  THEN Outcome(d, FALSE,
               [i \in DOMAIN d[inputTable].rows |->
                  Edge(d[inputTable].rows[i][colA], d[inputTable].rows[i][colB])])
  ELSE Outcome(d, TRUE, << >>)

\* findConnectedComponents with the class dictionaries of the labeler and the
\* order in which the set of keys is listed: the class dictionaries after
\* the call, the database, whether the call raised, the relation returned.
findConnectedComponents(h2s, s2h, d, inputTable, colA, colB, outputTable, hashes) ==
  LET edges == read_sql(d, inputTable, colA, colB)
      w == connectedComponentsLabeler(h2s, s2h, edges.frame, hashes)
      connectedComponents == getConnectedCompontents(w.o).out
  IN  IF edges.raised
      THEN [hash2seq |-> h2s, seq2hash |-> s2h, db |-> d, raised |-> TRUE, frame |-> << >>]
      ELSE IF w.o.pc = "failed"
      THEN [hash2seq |-> w.hash2seq, seq2hash |-> w.seq2hash, db |-> d,
            raised |-> TRUE, frame |-> << >>]
      ELSE [hash2seq |-> w.hash2seq, seq2hash |-> w.seq2hash,
            db |-> to_sql(d, outputTable, << "id", "cc" >>, connectedComponents),
            raised |-> FALSE, frame |-> connectedComponents]

\* dropTable: "select dropTable(NULL, table)" removes the table with its
\* registration and its index; a name that is no table is left alone.
dropTable(d, table) == IF table \in DOMAIN d THEN DictDel(d, table) ELSE d

\* tableExists: the name is in the index of getListOfTables.
tableExists(d, table) == table \in DOMAIN d

\* A geometry: the point that has the coordinates 0 0 in the system origin,
\* written in the coordinates of the system srid.
GeomFromText(srid) == [origin |-> srid, srid |-> srid]

\* st_transform(geometry, srid): the same point in the coordinates of srid.
st_transform(geometry, srid) == [geometry EXCEPT !.srid = srid]

\* "CREATE TABLE test_table (id INTEGER PRIMARY KEY, geometry GEOMETRY)":
\* sqlite raises when the table exists.
createTable(d, table) ==
  IF table \in DOMAIN d
  THEN Outcome(d, TRUE, << >>)
  ELSE Outcome(DictSet(d, table, Table(<< "id", "geometry" >>, TRUE, << >>)), FALSE, << >>)

\* "INSERT INTO test_table(geometry) VALUES (GeomFromText('POINT(0 0)', srid))"
\* on a table whose id is its integer primary key: the id is the next one.
insertGeometry(d, table, srid) ==
  IF table \in DOMAIN d /\ "geometry" \in Columns(d[table])
  THEN Outcome(DictSet(d, table,
                 [d[table] EXCEPT !.rows = Append(d[table].rows,
                    [id |-> Len(d[table].rows) + 1, geometry |-> GeomFromText(srid)])]),
               FALSE, << >>)
  ELSE Outcome(d, TRUE, << >>)

\* inspectGeometry: one group for each kind of geometry of the table; all
\* geometries are points of two dimensions, so a kind is a srid.
inspectGeometry(d, table) == {d[table].rows[i].geometry.srid : i \in DOMAIN d[table].rows}

\* recoverGeometry of a geometry that is not registered yet: raises when the
\* table or the column is missing, when there is more than one kind of
\* geometry and, by inspection[0], when there is none.
recoverGeometry(d, table) ==
  IF table \notin DOMAIN d
  THEN Outcome(d, TRUE, << >>)
  ELSE IF "geometry" \notin Columns(d[table])
  THEN Outcome(d, TRUE, << >>)
  ELSE IF Cardinality(inspectGeometry(d, table)) # 1
  THEN Outcome(d, TRUE, << >>)
  ELSE Outcome(DictSet(d, table, [d[table] EXCEPT !.registered = TRUE]), FALSE, << >>)

\* createSpatialIndex of a table without index: raises when the geometry is
\* not registered.
createSpatialIndex(d, table) ==
  IF table \in DOMAIN d /\ d[table].registered
  THEN Outcome(DictSet(d, table, [d[table] EXCEPT !.indexed = TRUE]), FALSE, << >>)
  ELSE Outcome(d, TRUE, << >>)

\* f'{inputTable}_{srid}'
DefaultName(inputTable, srid) == inputTable \o << "_", srid >>

\* lines 827-828: the name of the output table
OutputName(inputTable, srid, outputTable) ==
  IF outputTable = NoName THEN DefaultName(inputTable, srid) ELSE outputTable

\* "create table {outputTable} as select {l}, st_transform(geometry, srid)
\* as geometry from {inputTable}"
Transformed(table, srid) ==
  Table(SelectSeq(table.cols, LAMBDA c : c # "geometry") \o << "geometry" >>, FALSE,
        [i \in DOMAIN table.rows |->
           [c \in Columns(table) |->
              IF c = "geometry" THEN st_transform(table.rows[i][c], srid)
                                ELSE table.rows[i][c]]])

(***************************************************************************)
(* reproject.  d1 is the database after lines 832-838; the call raises at   *)
(* line 835 (the table exists, if_exists is 'fail'), at line 840 (the       *)
(* input is no table: getListOfColumns returns a tuple), at line 841 (no    *)
(* column geometry), at line 843 (no other column, or the output table      *)
(* still exists), in recoverGeometry or in createSpatialIndex.              *)
(***************************************************************************)
reproject(d, inputTable, srid, outputTable, if_exists) ==
  LET out == OutputName(inputTable, srid, outputTable)
      d1 == IF tableExists(d, out) /\ if_exists = "replace" THEN dropTable(d, out) ELSE d
      d2 == DictSet(d1, out, Transformed(d1[inputTable], srid))
      recovered == recoverGeometry(d2, out)
  IN  IF tableExists(d, out) /\ if_exists = "fail"
      THEN Outcome(d, TRUE, << >>)
      ELSE IF ~tableExists(d1, inputTable)
      THEN Outcome(d1, TRUE, << >>)
      ELSE IF "geometry" \notin Columns(d1[inputTable])
      THEN Outcome(d1, TRUE, << >>)
      ELSE IF Columns(d1[inputTable]) = {"geometry"} \/ tableExists(d1, out)
      THEN Outcome(d1, TRUE, << >>)
      ELSE IF recovered.raised
      THEN Outcome(d2, TRUE, << >>)
      ELSE createSpatialIndex(recovered.db, out)

(***************************************************************************)
(* Calls on the database for the connected components.                      *)
(***************************************************************************)
\* The relations the test loads: no edge, one edge, a path of two edges.
DbInputs ==
  {<< >>, << Edge("A", "B") >>, << Edge("B", "B") >>, << Edge("A", "B"), Edge("B", "C") >>}

\* edgesColumnNames
ColumnPairs == {<< "a", "b" >>, << "b", "a" >>}

\* df_edges.to_sql(table, self.db.database, index=False, if_exists='replace')
ToSql(table) ==
  /\ \E edges \in DbInputs : db' = to_sql(db, table, << "a", "b" >>, edges)
  /\ ret' = Return("to_sql", table, FALSE, << >>, FALSE, FALSE)
  /\ UNCHANGED <<hash2seq, seq2hash, lab, last, fs, issued>>

FindConnectedComponents(inputTable, outputTable) ==
  /\ \E cols \in ColumnPairs :
       LET edges == read_sql(db, inputTable, cols[1], cols[2])
       IN  \E hashes \in Hashes(edges.frame) :
             LET res == findConnectedComponents(hash2seq, seq2hash, db, inputTable,
                                                cols[1], cols[2], outputTable, hashes)
             IN  /\ hash2seq' = res.hash2seq
                 /\ seq2hash' = res.seq2hash
                 /\ db' = res.db
                 /\ ret' = Return("findConnectedComponents", outputTable, res.raised,
                                  res.frame, FALSE, FALSE)
  /\ UNCHANGED <<lab, last, fs, issued>>

DropTable(table) ==
  /\ db' = dropTable(db, table)
  /\ ret' = Return("dropTable", table, FALSE, << >>, FALSE, FALSE)
  /\ UNCHANGED <<hash2seq, seq2hash, lab, last, fs, issued>>

NextDb ==
  \E table \in TableNames :
    \/ ToSql(table)
    \/ \E outputTable \in TableNames : FindConnectedComponents(table, outputTable)
    \/ DropTable(table)

SpecDb == Init /\ [][NextDb]_vars

(***************************************************************************)
(* Calls on the database for the geometries.                                *)
(***************************************************************************)
CreateTable(table) ==
  /\ LET res == createTable(db, table)
     IN  /\ db' = res.db
         /\ ret' = Return("execute", table, res.raised, << >>, FALSE, FALSE)
  /\ UNCHANGED <<hash2seq, seq2hash, lab, last, fs, issued>>

InsertGeometry(table) ==
  /\ table \in DOMAIN db
  /\ db[table].pk
  /\ Len(db[table].rows) < MaxRows
  /\ \E srid \in Srids :
       LET res == insertGeometry(db, table, srid)
       IN  /\ db' = res.db
           /\ ret' = Return("execute", table, res.raised, << >>, FALSE, FALSE)
  /\ UNCHANGED <<hash2seq, seq2hash, lab, last, fs, issued>>

RecoverGeometry(table) ==
  /\ table \in DOMAIN db => ~db[table].registered
  /\ LET res == recoverGeometry(db, table)
     IN  /\ db' = res.db
         /\ ret' = Return("recoverGeometry", table, res.raised, << >>, FALSE, FALSE)
  /\ UNCHANGED <<hash2seq, seq2hash, lab, last, fs, issued>>

\* The geometries are reprojected into one of the two systems.
Reproject(inputTable) ==
  /\ \E srid \in {"4326"}, outputTable \in {NoName} \cup TableNames,
        if_exists \in {"fail", "replace"} :
       LET res == reproject(db, inputTable, srid, outputTable, if_exists)
       IN  /\ db' = res.db
           /\ ret' = Return("reproject", OutputName(inputTable, srid, outputTable),
                            res.raised, << >>, FALSE, FALSE)
  /\ UNCHANGED <<hash2seq, seq2hash, lab, last, fs, issued>>

NextGeo ==
  \E table \in TableNames :
    \/ CreateTable(table)
    \/ InsertGeometry(table)
    \/ RecoverGeometry(table)
    \/ DropTable(table)
    \/ Reproject(table)

SpecGeo == Init /\ [][NextGeo]_vars

(***************************************************************************)
(* download.  fs maps the path of every file that exists to its content.    *)
(***************************************************************************)
Paths == {"a.zip", "b.zip", "c.zip", "nodir/d.zip"}

\* open(destination, 'w') raises IOError: the directory does not exist.
CannotOpen(destination) == destination = "nodir/d.zip"

Contents == {"v1", "v2"}

\* What requests.get gives: a response, or no response and an exception.
ConnectionError == [status_code |-> 0, content |-> ""]

Responses == [status_code : {200, 404}, content : Contents] \cup {ConnectionError}

Downloaded(files, flag, requested, raised) ==
  [fs |-> files, flag |-> flag, requested |-> requested, raised |-> raised]

\* Variant of download without the test of lines 30-32.
downloadOverExisting(files, destination, if_exists, r) ==
  IF CannotOpen(destination)
  THEN Downloaded(files, FALSE, FALSE, FALSE)
  ELSE IF r = ConnectionError
  THEN Downloaded(DictSet(files, destination, ""), FALSE, TRUE, TRUE)
  ELSE IF r.status_code # 200
  THEN Downloaded(DictSet(files, destination, ""), FALSE, TRUE, FALSE)
  ELSE Downloaded(DictSet(files, destination, r.content), TRUE, TRUE, FALSE)

\* download(url, destination, if_exists) when the server answers r: the
\* file is opened for writing, and so emptied or created, before the request.
download(files, destination, if_exists, r) ==
  IF destination \in DOMAIN files /\ if_exists = "exit"
  THEN Downloaded(files, FALSE, FALSE, FALSE)
  ELSE IF CannotOpen(destination)
  THEN Downloaded(files, FALSE, FALSE, FALSE)
  ELSE IF r = ConnectionError
  THEN Downloaded(DictSet(files, destination, ""), FALSE, TRUE, TRUE)
  ELSE IF r.status_code # 200
  THEN Downloaded(DictSet(files, destination, ""), FALSE, TRUE, FALSE)
  ELSE Downloaded(DictSet(files, destination, r.content), TRUE, TRUE, FALSE)

Download(destination) ==
  /\ \E if_exists \in {"exit", "replace"}, r \in Responses :
       LET res == download(fs, destination, if_exists, r)
       IN  /\ fs' = res.fs
           /\ ret' = Return("download", destination, res.raised, << >>, res.flag,
                            res.requested)
  /\ UNCHANGED <<hash2seq, seq2hash, lab, last, db, issued>>

NextFiles == \E destination \in Paths : Download(destination)

SpecFiles == Init /\ [][NextFiles]_vars

\* Geodatabase.findConnectedComponents, line 288, in a process that has built
\* no labeler before: connectedComponentsLabeler(edges).getConnectedCompontents()
Labeling(edges, hashes) ==
  getConnectedCompontents(connectedComponentsLabeler(<< >>, << >>, edges, hashes).o).out

\* self.hash2seq and self.seq2hash: no instance binds these names, so the
\* lookup on any labeler ends at the attributes of the class.
SelfHash2seq(l) == hash2seq

SelfSeq2hash(l) == seq2hash

(***************************************************************************)
(* The graph of an edge list, independently of the forest.                  *)
(***************************************************************************)
Neighbours(edges, S) ==
  S \cup {edges[i].b : i \in {j \in DOMAIN edges : edges[j].a \in S}}
    \cup {edges[i].a : i \in {j \in DOMAIN edges : edges[j].b \in S}}

RECURSIVE ReachFrom(_, _)
ReachFrom(edges, S) ==
  LET T == Neighbours(edges, S) IN IF T = S THEN S ELSE ReachFrom(edges, T)

Connected(edges, x, y) == y \in ReachFrom(edges, {x})

Components(edges) == {ReachFrom(edges, {x}) : x \in KeySet(edges)}

\* The root an index leads to, following the links without changing them.
RECURSIVE RootOf(_, _)
RootOf(forest, i) == IF forest[i] = i THEN i ELSE RootOf(forest, forest[i])

Roots(forest) == {i \in DOMAIN forest : forest[i] = i}

PartitionOfForest(hashes, forest) ==
  {{hashes[j] : j \in {k \in DOMAIN forest : RootOf(forest, k) = RootOf(forest, i)}} :
     i \in DOMAIN forest}

\* The returned relation read as a labeling of keys.
SameLabel(out, x, y) ==
  \E i \in DOMAIN out, j \in DOMAIN out :
    out[i].id = x /\ out[j].id = y /\ out[i].cc = out[j].cc

LabelsIn(out) == {out[i].cc : i \in DOMAIN out}

RowsOf(out, cc) == {i \in DOMAIN out : out[i].cc = cc}

PartitionOfOut(out) == {{out[i].id : i \in RowsOf(out, cc)} : cc \in LabelsIn(out)}

Resolutions == {"simplifyForest", "getConnectedCompontents"}

(***************************************************************************)
(* C1: after construction and getConnectedCompontents, two keys of the      *)
(* edge list carry the same cc label if and only if a path of ingested      *)
(* edges connects them.                                                     *)
(***************************************************************************)
C1_SameLabelIffConnected ==
  \A l \in Labelers :
    lab[l].returned =>
      \A x \in KeySet(lab[l].edges), y \in KeySet(lab[l].edges) :
        SameLabel(lab[l].out, x, y) <=> Connected(lab[l].edges, x, y)

\* The test graph is labelled: C and D share a label through A and B without
\* sharing an edge, A and F do not.
C1_Witness ==
  /\ lab["L1"].returned
  /\ lab["L1"].edges = TestGraph
  /\ SameLabel(lab["L1"].out, "C", "D")
  /\ ~SameLabel(lab["L1"].out, "A", "F")

(***************************************************************************)
(* C2: the returned relation has exactly one row for each distinct key of   *)
(* columns a and b and no other row; its row count is n.                    *)
(***************************************************************************)
C2_OneRowPerKey ==
  \A l \in Labelers :
    lab[l].returned =>
      /\ {lab[l].out[i].id : i \in DOMAIN lab[l].out} = KeySet(lab[l].edges)
      /\ PyLen(lab[l].out) = Cardinality(KeySet(lab[l].edges))
      /\ PyLen(lab[l].out) = lab[l].numberOfNodes

\* The relation of the test graph has 7 rows.
C2_Witness ==
  /\ lab["L1"].returned
  /\ lab["L1"].edges = TestGraph
  /\ PyLen(lab["L1"].out) = 7

(***************************************************************************)
(* C3: the number of distinct cc values is the number of connected          *)
(* components of the graph, and the number of rows carrying a label is the  *)
(* size of that component.                                                  *)
(***************************************************************************)
C3_LabelsCountComponents ==
  \A l \in Labelers :
    lab[l].returned =>
      /\ Cardinality(LabelsIn(lab[l].out)) = Cardinality(Components(lab[l].edges))
      /\ \A i \in DOMAIN lab[l].out :
           Cardinality(RowsOf(lab[l].out, lab[l].out[i].cc))
             = Cardinality(ReachFrom(lab[l].edges, {lab[l].out[i].id}))

\* The test graph: exactly 2 labels, one on 5 keys and one on 2 keys.
C3_Witness ==
  /\ lab["L1"].returned
  /\ lab["L1"].edges = TestGraph
  /\ Cardinality(LabelsIn(lab["L1"].out)) = 2
  /\ {Cardinality(RowsOf(lab["L1"].out, cc)) : cc \in LabelsIn(lab["L1"].out)} = {5, 2}

(***************************************************************************)
(* C4: permuting the edges, repeating an edge, swapping the endpoints of    *)
(* an edge or adding a self-loop on a present key gives the same partition  *)
(* of the keys into classes of equal label, whatever order the keys are     *)
(* numbered in.                                                             *)
(***************************************************************************)
Reorderings(edges) ==
  {[i \in DOMAIN edges |-> edges[p[i]]] : p \in Permutations(DOMAIN edges)}

Variants(edges) ==
  Reorderings(edges)
    \cup {[edges EXCEPT ![i] = Edge(edges[i].b, edges[i].a)] : i \in DOMAIN edges}
    \cup {Append(edges, edges[i]) : i \in DOMAIN edges}
    \cup {Append(edges, Edge(x, x)) : x \in KeySet(edges)}

C4_OrderInvariance ==
  \A l \in Labelers :
    (lab[l].returned /\ last.op = "getConnectedCompontents"
       /\ lab[l].edges \in SmallInputs) =>
      \A other \in Variants(lab[l].edges) :
        \A hashes \in Hashes(other) :
          PartitionOfOut(Labeling(other, hashes)) = PartitionOfOut(lab[l].out)

\* Two different edges over three keys were ingested and labelled.
C4_Witness ==
  /\ lab["L1"].returned
  /\ last.op = "getConnectedCompontents"
  /\ lab["L1"].edges \in SmallInputs
  /\ Len(lab["L1"].edges) = 2
  /\ lab["L1"].edges[1] # lab["L1"].edges[2]
  /\ Cardinality(KeySet(lab["L1"].edges)) = 3
  /\ Cardinality(PartitionOfOut(lab["L1"].out)) = 1

(***************************************************************************)
(* C5: at the start of a construction the mappings the labeler sees are     *)
(* empty; no entry written by one labeler is visible to another.            *)
(***************************************************************************)
C5_FreshMappings ==
  \A l \in Labelers :
    lab[l].pc = "new" => (SelfHash2seq(l) = << >> /\ SelfSeq2hash(l) = << >>)

(***************************************************************************)
(* C6: with the steps of two constructions interleaved, each labeler ends   *)
(* with the partition it produces alone, and no link is called with an      *)
(* index outside the labeler's forest.                                      *)
(***************************************************************************)
Alone(l) == connectedComponentsLabeler(<< >>, << >>, lab[l].edges, lab[l].hashes).o

C6_NoInterference ==
  \A l \in Labelers :
    /\ lab[l].pc # "failed"
    /\ lab[l].pc = "ready" =>
         PartitionOfForest(lab[l].hashes, lab[l].forest)
           = PartitionOfForest(Alone(l).hashes, Alone(l).forest)

(***************************************************************************)
(* C7: on a chain (1,2),(2,3),...,(n-1,n) ingested in that order the        *)
(* nesting depth of connectedComponentIdentifier stays below a constant     *)
(* that does not grow with n, and the result is one component of size n.    *)
(***************************************************************************)
C7_BoundedStackDepth ==
  \A l \in Labelers :
    lab[l].edges \in ChainInputs =>
      /\ last.depth <= StackBound
      /\ lab[l].returned =>
           PartitionOfOut(lab[l].out) = {KeySet(lab[l].edges)}

(***************************************************************************)
(* C8: after one resolution, a further simplifyForest leaves the forest     *)
(* unchanged and a further getConnectedCompontents returns the identical    *)
(* relation.                                                                *)
(***************************************************************************)
C8_ResolutionIdempotent ==
  \A l \in Labelers :
    (last.l = l /\ last.op \in Resolutions) =>
      /\ simplifyForest(lab[l].forest).forest = lab[l].forest
      /\ last.op = "getConnectedCompontents" =>
           getConnectedCompontents(lab[l]).out = lab[l].out

\* A chain of four keys was resolved: some entry had to be rewritten.
C8_Witness ==
  /\ last.op = "getConnectedCompontents"
  /\ lab["L1"].numberOfNodes = 4
  /\ Cardinality(Roots(lab["L1"].forest)) = 1
  /\ lab["L1"].out = DataFrame(lab["L1"].hashes, lab["L1"].forest)

(***************************************************************************)
(* C9: a link(i, j) call leaves the number of roots unchanged exactly when  *)
(* i and j were already in the same component, and otherwise decreases it   *)
(* by exactly one.                                                          *)
(***************************************************************************)
LinkKeepsOrMerges(forest, i, j) ==
  IF RootOf(forest, i) = RootOf(forest, j)
  THEN Cardinality(Roots(link(forest, i, j).forest)) = Cardinality(Roots(forest))
  ELSE Cardinality(Roots(link(forest, i, j).forest)) = Cardinality(Roots(forest)) - 1

C9_MergeMonotonicity ==
  \A l \in Labelers :
    lab[l].pc = "ready" =>
      \A i \in Nodes(l), j \in Nodes(l) :
        /\ ~link(lab[l].forest, i, j).err
        /\ LinkKeepsOrMerges(lab[l].forest, i, j)

\* A link was made on a forest of three indices that has merged.
C9_Witness ==
  /\ last.op = "link"
  /\ lab["L1"].numberOfNodes = 3
  /\ Cardinality(Roots(lab["L1"].forest)) = 1

(***************************************************************************)
(* C10: an empty edge list gives no registered key, an empty forest, no     *)
(* component and an empty relation, and nothing is raised.                  *)
(***************************************************************************)
C10_EmptyInput ==
  \A l \in Labelers :
    (lab[l].pc # "new" /\ lab[l].edges = << >>) =>
      /\ lab[l].pc = "ready"
      /\ ~last.err
      /\ lab[l].hashes = << >>
      /\ lab[l].numberOfNodes = 0
      /\ lab[l].forest = << >>
      /\ Roots(lab[l].forest) = {}
      /\ lab[l].returned => lab[l].out = << >>

\* The labeler of an empty edge list has returned its relation.
C10_Witness ==
  /\ lab["L1"].pc = "ready"
  /\ lab["L1"].edges = << >>
  /\ lab["L1"].returned
  /\ last.op = "getConnectedCompontents"

(***************************************************************************)
(* C11: an edge with a null source or target key makes the construction     *)
(* fail; no labeling, and no row for the null key, is produced.             *)
(***************************************************************************)
C11_NullKeyRejected ==
  \A l \in Labelers :
    (lab[l].pc # "new" /\ PyNone \in KeySet(lab[l].edges)) =>
      /\ lab[l].pc = "failed"
      /\ ~lab[l].returned
      /\ \A i \in DOMAIN lab[l].out : lab[l].out[i].id # PyNone

(***************************************************************************)
(* C12: connectedComponentIdentifier and link called with an index outside  *)
(* [0, n) raise and leave the forest unchanged.                             *)
(***************************************************************************)
C12_OutOfRangeRejected ==
  \A l \in Labelers :
    lab[l].pc = "ready" =>
      /\ \A node \in Indices(l) \ Nodes(l) :
           /\ connectedComponentIdentifier(lab[l].forest, node).err
           /\ connectedComponentIdentifier(lab[l].forest, node).forest = lab[l].forest
      /\ \A nodeA \in Indices(l), nodeB \in Indices(l) :
           ({nodeA, nodeB} \subseteq Nodes(l)) \/
             /\ link(lab[l].forest, nodeA, nodeB).err
             /\ link(lab[l].forest, nodeA, nodeB).forest = lab[l].forest

(***************************************************************************)
(* C13: once getConnectedCompontents has returned, no call of the public    *)
(* surface changes a forest entry.                                          *)
(***************************************************************************)
C13_ReadOnlyAfterResolution ==
  [][\A l \in Labelers : lab[l].returned => lab'[l].forest = lab[l].forest]_vars

(***************************************************************************)
(* C14: the hash2seq and seq2hash a labeler sees are mutually inverse,      *)
(* their domains are the labeler's keys and [0, n), and numberOfNodes is    *)
(* the number of mapped keys.                                               *)
(***************************************************************************)
C14_MappingBijection ==
  \A l \in Labelers :
    lab[l].pc = "ready" =>
      /\ DOMAIN SelfHash2seq(l) = KeySet(lab[l].edges)
      /\ DOMAIN SelfSeq2hash(l) = Nodes(l)
      /\ \A x \in DOMAIN SelfHash2seq(l) :
           /\ SelfHash2seq(l)[x] \in DOMAIN SelfSeq2hash(l)
           /\ SelfSeq2hash(l)[SelfHash2seq(l)[x]] = x
      /\ \A i \in DOMAIN SelfSeq2hash(l) :
           /\ SelfSeq2hash(l)[i] \in DOMAIN SelfHash2seq(l)
           /\ SelfHash2seq(l)[SelfSeq2hash(l)[i]] = i
      /\ lab[l].numberOfNodes = Cardinality(DOMAIN SelfHash2seq(l))

(***************************************************************************)
(* C16: a run over an edge list gives the rows of the run over the same     *)
(* list with the same numbering of the keys in a process that built no      *)
(* labeler before, and the partition of every such run, whatever labeler    *)
(* was built in between.                                                    *)
(***************************************************************************)
C16_Deterministic ==
  \A l \in Labelers :
    lab[l].returned =>
      /\ lab[l].out = Labeling(lab[l].edges, lab[l].hashes)
      /\ \A hashes \in Hashes(lab[l].edges) :
           PartitionOfOut(Labeling(lab[l].edges, hashes)) = PartitionOfOut(lab[l].out)
      /\ \A m \in Labelers :
           (lab[m].returned /\ lab[m].edges = lab[l].edges) =>
             /\ PartitionOfOut(lab[m].out) = PartitionOfOut(lab[l].out)
             /\ lab[m].hashes = lab[l].hashes => lab[m].out = lab[l].out

\* Both labelers ran over the same edge between two keys, the second one on
\* dictionaries the first one had filled with the other numbering.
C16_Witness ==
  /\ lab["L1"].returned
  /\ lab["L2"].returned
  /\ last.l = "L2"
  /\ lab["L1"].edges = lab["L2"].edges
  /\ Cardinality(KeySet(lab["L1"].edges)) = 2
  /\ lab["L1"].hashes # lab["L2"].hashes

(***************************************************************************)
(* C19: link(i, j) on two indices of different roots ra and rb sets         *)
(* forest[ra] to rb, leaves rb a root, makes rb the root of i and of j and  *)
(* changes the entry of no other root.                                      *)
(***************************************************************************)
LinkAttachesFirstUnderSecond(forest, i, j) ==
  LET ra == RootOf(forest, i)
      rb == RootOf(forest, j)
      after == link(forest, i, j).forest
  IN  ra # rb =>
        /\ after[ra] = rb
        /\ after[rb] = rb
        /\ RootOf(after, i) = rb
        /\ RootOf(after, j) = rb
        /\ \A r \in Roots(forest) \ {ra} : after[r] = r

C19_UnionDirection ==
  \A l \in Labelers :
    lab[l].pc = "ready" =>
      \A i \in Nodes(l), j \in Nodes(l) :
        LinkAttachesFirstUnderSecond(lab[l].forest, i, j)

\* A link has left two of three indices under one root and the third alone.
C19_Witness ==
  /\ last.op = "link"
  /\ lab["L1"].numberOfNodes = 3
  /\ Cardinality(Roots(lab["L1"].forest)) = 2

(***************************************************************************)
(* C20: connectedComponentIdentifier(i) returns the root reached from i by  *)
(* the forest links, and afterwards every node of that path, i included,    *)
(* has the root as its forest entry.                                        *)
(***************************************************************************)
RECURSIVE PathOf(_, _)
PathOf(forest, i) == IF forest[i] = i THEN {i} ELSE {i} \cup PathOf(forest, forest[i])

FindCompressesPath(forest, i) ==
  LET res == connectedComponentIdentifier(forest, i)
  IN  /\ ~res.err
      /\ res.r = RootOf(forest, i)
      /\ \A node \in PathOf(forest, i) : res.forest[node] = res.r

C20_PathCompression ==
  \A l \in Labelers :
    lab[l].pc = "ready" =>
      \A i \in Nodes(l) : FindCompressesPath(lab[l].forest, i)

\* A call nested three deep has left three indices on one root.
C20_Witness ==
  /\ last.op = "connectedComponentIdentifier"
  /\ last.depth = 3
  /\ lab["L1"].numberOfNodes = 3
  /\ \E r \in Nodes("L1") : \A i \in Nodes("L1") : lab["L1"].forest[i] = r

(***************************************************************************)
(* C15: findConnectedComponents(inputTable, [colA, colB], outputTable)      *)
(* returns, and afterwards the output table exists and holds the rows the   *)
(* call returned, which are the labeling of the edges the input table held, *)
(* and the input table holds the rows it held.                              *)
(***************************************************************************)
C15_OutputHoldsLabeling ==
  \A inputTable \in TableNames, outputTable \in TableNames, cols \in ColumnPairs :
    LET edges == read_sql(db, inputTable, cols[1], cols[2])
    IN  ~edges.raised =>
          \A hashes \in Hashes(edges.frame) :
            LET res == findConnectedComponents(hash2seq, seq2hash, db, inputTable,
                                               cols[1], cols[2], outputTable, hashes)
            IN  /\ ~res.raised
                /\ res.frame = Labeling(edges.frame, hashes)
                /\ outputTable \in DOMAIN res.db
                /\ res.db[outputTable].cols = << "id", "cc" >>
                /\ res.db[outputTable].rows = res.frame
                /\ inputTable \in DOMAIN res.db
                /\ res.db[inputTable] = db[inputTable]

(***************************************************************************)
(* C17: download with if_exists='exit' on a destination that exists returns *)
(* False, sends no request and leaves every file as it was; download with   *)
(* if_exists='replace' that got a response of status 200 returns True and   *)
(* leaves the content of the response in the destination and every other    *)
(* file as it was.                                                          *)
(***************************************************************************)
C17_DownloadIfExists ==
  \A destination \in Paths, r \in Responses :
    /\ destination \in DOMAIN fs =>
         LET res == download(fs, destination, "exit", r)
         IN  /\ ~res.flag
             /\ ~res.requested
             /\ ~res.raised
             /\ res.fs = fs
    /\ LET res == download(fs, destination, "replace", r)
       IN  (res.requested /\ r.status_code = 200) =>
             /\ res.flag
             /\ ~res.raised
             /\ destination \in DOMAIN res.fs
             /\ res.fs[destination] = r.content
             /\ \A path \in DOMAIN fs \ {destination} :
                  path \in DOMAIN res.fs /\ res.fs[path] = fs[path]

\* The last call found its destination, sent nothing and returned False; the
\* destination still holds what an earlier download wrote.
C17_Witness ==
  /\ ret.op = "download"
  /\ ret.target \in DOMAIN fs
  /\ fs[ret.target] \in Contents
  /\ ~ret.requested
  /\ ~ret.flag

(***************************************************************************)
(* C18: when the output table of reproject exists, the call with            *)
(* if_exists='fail' raises and leaves the database as it was, and after the *)
(* call with if_exists='replace' the output table exists and holds the      *)
(* reprojected rows of the input table.                                     *)
(***************************************************************************)
C18_ReprojectIfExists ==
  \A inputTable \in TableNames, outputTable \in {NoName} \cup TableNames, srid \in Srids :
    LET out == OutputName(inputTable, srid, outputTable)
        failed == reproject(db, inputTable, srid, outputTable, "fail")
        replaced == reproject(db, inputTable, srid, outputTable, "replace")
    IN  out \in DOMAIN db =>
          /\ failed.raised
          /\ failed.db = db
          /\ out \in DOMAIN replaced.db
          /\ (inputTable \in DOMAIN db /\ "geometry" \in Columns(db[inputTable])) =>
               replaced.db[out].rows = Transformed(db[inputTable], srid).rows

(***************************************************************************)
(* C21: after simplifyForest every forest entry names a root, and a         *)
(* connectedComponentIdentifier(i) that follows returns forest[i] with at   *)
(* most one link followed.                                                  *)
(***************************************************************************)
Resolved(forest) ==
  \A i \in DOMAIN forest :
    /\ forest[forest[i]] = forest[i]
    /\ connectedComponentIdentifier(forest, i).r = forest[i]
    /\ connectedComponentIdentifier(forest, i).depth <= 2

C21_EntriesNameRoots ==
  \A l \in Labelers :
    lab[l].pc = "ready" => Resolved(simplifyForest(lab[l].forest).forest)

\* simplifyForest has run on the chain of four keys, whose first entry was
\* three links away from its root.
C21_Witness ==
  /\ last.op = "simplifyForest"
  /\ lab["L1"].edges = Chain(4)
  /\ Cardinality(Roots(lab["L1"].forest)) = 1
  /\ \A i \in Nodes("L1") : lab["L1"].forest[i] = 3

(***************************************************************************)
(* C22: in every state reached through construction, link,                  *)
(* connectedComponentIdentifier and simplifyForest with indices of [0, n),  *)
(* the forest has n entries and every entry lies in [0, n).                 *)
(***************************************************************************)
C22_ForestInRange ==
  \A l \in Labelers :
    lab[l].pc = "ready" =>
      /\ PyLen(lab[l].forest) = lab[l].numberOfNodes
      /\ DOMAIN lab[l].forest = Nodes(l)
      /\ \A i \in DOMAIN lab[l].forest : lab[l].forest[i] \in Nodes(l)

\* Three keys, and a link has moved an entry.
C22_Witness ==
  /\ last.op = "link"
  /\ lab["L1"].numberOfNodes = 3
  /\ \E i \in Nodes("L1") : lab["L1"].forest[i] # i

(***************************************************************************)
(* C23: before the first link every index is its own root, and two indices  *)
(* that have the same root keep having the same root after any link,        *)
(* connectedComponentIdentifier or simplifyForest call.                     *)
(***************************************************************************)
\* The forest line 38 makes for the keys of a labeler.
BeforeFirstLink(o) ==
  InitSize(InitBegin(World(<< >>, << >>, NewLabeler), o.edges, o.hashes)).o.forest

KeepsTogether(before, after) ==
  \A i \in DOMAIN before, j \in DOMAIN before :
    RootOf(before, i) = RootOf(before, j) => RootOf(after, i) = RootOf(after, j)

C23_OnlyMerges ==
  \A l \in Labelers :
    lab[l].pc = "ready" =>
      /\ DOMAIN BeforeFirstLink(lab[l]) = Nodes(l)
      /\ \A i \in Nodes(l) : BeforeFirstLink(lab[l])[i] = i
      /\ KeepsTogether(BeforeFirstLink(lab[l]), lab[l].forest)
      /\ KeepsTogether(lab[l].forest, simplifyForest(lab[l].forest).forest)
      /\ \A i \in Nodes(l) :
           /\ KeepsTogether(lab[l].forest,
                            connectedComponentIdentifier(lab[l].forest, i).forest)
           /\ \A j \in Nodes(l) :
                KeepsTogether(lab[l].forest, link(lab[l].forest, i, j).forest)

\* Links have merged three indices into one component, and an entry is still
\* two links away from the root.
C23_Witness ==
  /\ last.op = "link"
  /\ lab["L1"].numberOfNodes = 3
  /\ Cardinality(Roots(lab["L1"].forest)) = 1
  /\ \E i \in Nodes("L1") : lab["L1"].forest[lab["L1"].forest[i]] # lab["L1"].forest[i]

(***************************************************************************)
(* C24: link(i, j) on two indices that have the same root, link(i, i)       *)
(* included, leaves the set of roots and the root of every index as they    *)
(* were; the single edge (A,A) gives one key and one component of one key.  *)
(***************************************************************************)
SamePartition(before, after) ==
  /\ Roots(after) = Roots(before)
  /\ \A k \in DOMAIN before : RootOf(after, k) = RootOf(before, k)

SelfLoop(edges) == Len(edges) = 1 /\ edges[1].a = edges[1].b

C24_LinkWithinComponent ==
  \A l \in Labelers :
    lab[l].pc = "ready" =>
      /\ \A i \in Nodes(l), j \in Nodes(l) :
           RootOf(lab[l].forest, i) = RootOf(lab[l].forest, j) =>
             SamePartition(lab[l].forest, link(lab[l].forest, i, j).forest)
      /\ SelfLoop(lab[l].edges) =>
           /\ lab[l].numberOfNodes = 1
           /\ PyLen(lab[l].hashes) = 1
           /\ PartitionOfForest(lab[l].hashes, lab[l].forest) = {{lab[l].edges[1].a}}

\* link(0, 0) was called on the labeler of the single edge (A,A).
C24_Witness ==
  /\ last.op = "link"
  /\ lab["L1"].edges = << Edge("A", "A") >>
  /\ lab["L1"].numberOfNodes = 1

(***************************************************************************)
(* C25: connectedComponentIdentifier(i) changes no entry outside the path   *)
(* from i to its root, and neither it nor simplifyForest changes the set of *)
(* roots or the root of any index.                                          *)
(***************************************************************************)
C25_ResolutionKeepsRoots ==
  \A l \in Labelers :
    lab[l].pc = "ready" =>
      /\ SamePartition(lab[l].forest, simplifyForest(lab[l].forest).forest)
      /\ \A i \in Nodes(l) :
           /\ SamePartition(lab[l].forest,
                            connectedComponentIdentifier(lab[l].forest, i).forest)
           /\ \A k \in Nodes(l) \ PathOf(lab[l].forest, i) :
                connectedComponentIdentifier(lab[l].forest, i).forest[k] = lab[l].forest[k]

\* simplifyForest has rewritten an entry that was two links away from the
\* root of three indices.
C25_Witness ==
  /\ last.op = "simplifyForest"
  /\ last.depth = 3
  /\ lab["L1"].numberOfNodes = 3
  /\ Cardinality(Roots(lab["L1"].forest)) = 1

(***************************************************************************)
(* C26: the forest has no cycle: from every index fewer than n links lead   *)
(* to an index that is its own entry, and connectedComponentIdentifier      *)
(* returns within n nested activations.                                     *)
(***************************************************************************)
RECURSIVE After(_, _, _)
After(forest, i, steps) ==
  IF steps = 0 THEN i ELSE After(forest, forest[i], steps - 1)

Acyclic(forest) ==
  \A i \in DOMAIN forest :
    \E steps \in 0..(PyLen(forest) - 1) :
      forest[After(forest, i, steps)] = After(forest, i, steps)

C26_Acyclic ==
  \A l \in Labelers :
    lab[l].pc = "ready" =>
      /\ Acyclic(lab[l].forest)
      /\ \A i \in Nodes(l) :
           connectedComponentIdentifier(lab[l].forest, i).depth <= lab[l].numberOfNodes

\* A path of two links: the root is reached in n - 1 steps, not fewer.
C26_Witness ==
  /\ lab["L1"].pc = "ready"
  /\ lab["L1"].numberOfNodes = 3
  /\ \E i \in Nodes("L1") :
       /\ lab["L1"].forest[i] # i
       /\ lab["L1"].forest[lab["L1"].forest[i]] # lab["L1"].forest[i]

(***************************************************************************)
(* C27: whatever link and simplifyForest calls were made on a labeler, in   *)
(* whatever order, after one more simplifyForest two indices have the same  *)
(* forest entry if and only if the links made so far, those of the          *)
(* construction included, connect them.                                     *)
(***************************************************************************)
\* The index line 33 gives a key: its position in hashes.
IndexOfKey(hashes, x) == CHOOSE i \in DOMAIN hashes : hashes[i] = x

\* The links made on a labeler: one for each ingested edge, and the issued ones.
LinksMade(o) ==
  {{IndexOfKey(o.hashes, o.edges[e].a), IndexOfKey(o.hashes, o.edges[e].b)} :
     e \in DOMAIN o.edges} \cup issued

RECURSIVE LinkedFrom(_, _)
LinkedFrom(links, S) ==
  LET T == S \cup UNION {pair \in links : pair \cap S # {}}
  IN  IF T = S THEN S ELSE LinkedFrom(links, T)

C27_ResolutionMatchesLinks ==
  (lab["L1"].pc = "ready") =>
    LET forest == simplifyForest(lab["L1"].forest).forest
    IN  \A i \in Nodes("L1"), j \in Nodes("L1") :
          (forest[i] = forest[j]) <=> (j \in LinkedFrom(LinksMade(lab["L1"]), {i}))

\* Links issued after the construction have joined three indices, and an
\* entry is still two links away from the root.
C27_Witness ==
  /\ last.op = "link"
  /\ lab["L1"].numberOfNodes = 3
  /\ Cardinality(issued) >= 2
  /\ Cardinality(Roots(lab["L1"].forest)) = 1
  /\ \E i \in Nodes("L1") : lab["L1"].forest[lab["L1"].forest[i]] # lab["L1"].forest[i]

(***************************************************************************)
(* C28: for every returned row (id, cc), cc lies in [0, n), hashes[cc] is a *)
(* key of the component of id, and the row of hashes[cc] carries cc.        *)
(***************************************************************************)
C28_LabelIsMember ==
  \A l \in Labelers :
    lab[l].returned =>
      \A i \in DOMAIN lab[l].out :
        LET cc == lab[l].out[i].cc
        IN  /\ cc \in Nodes(l)
            /\ Connected(lab[l].edges, lab[l].out[i].id, lab[l].hashes[cc])
            /\ \A j \in DOMAIN lab[l].out :
                 lab[l].out[j].id = lab[l].hashes[cc] => lab[l].out[j].cc = cc

\* The relation of the test graph was returned: seven rows, two labels.
C28_Witness ==
  /\ lab["L1"].returned
  /\ lab["L1"].edges = TestGraph
  /\ PyLen(lab["L1"].out) = 7
  /\ Cardinality(LabelsIn(lab["L1"].out)) = 2

(***************************************************************************)
(* C29: labelers used one after the other: whatever labelers were built     *)
(* before or after it, a labeler holds the forest, and returns the          *)
(* relation, of the same construction made first in a process of its own.   *)
(***************************************************************************)
Fresh(o) == connectedComponentsLabeler(<< >>, << >>, o.edges, o.hashes).o

C29_SequentialReuse ==
  \A l \in Labelers :
    lab[l].pc # "new" =>
      /\ lab[l].pc = "ready"
      /\ lab[l].numberOfNodes = Fresh(lab[l]).numberOfNodes
      /\ simplifyForest(lab[l].forest).forest = simplifyForest(Fresh(lab[l]).forest).forest
      /\ getConnectedCompontents(lab[l]).out = getConnectedCompontents(Fresh(lab[l])).out
      /\ lab[l].returned => lab[l].out = getConnectedCompontents(Fresh(lab[l])).out

\* The second labeler was built over keys the first one had numbered
\* otherwise, and the first one returned its relation afterwards.
C29_Witness ==
  /\ last.op = "getConnectedCompontents"
  /\ last.l = "L1"
  /\ lab["L1"].returned
  /\ lab["L2"].pc = "ready"
  /\ ~lab["L2"].returned
  /\ Cardinality(KeySet(lab["L1"].edges)) = 2
  /\ KeySet(lab["L1"].edges) \cap KeySet(lab["L2"].edges) # {}
  /\ \E x \in KeySet(lab["L1"].edges) :
       \E i \in DOMAIN lab["L1"].hashes :
         lab["L1"].hashes[i] = x /\ hash2seq[x] # i

(***************************************************************************)
(* C30: whenever download returns False, the files are as they were before  *)
(* the call.                                                                *)
(***************************************************************************)
C30_FalseLeavesFiles ==
  \A destination \in Paths, if_exists \in {"exit", "replace"}, r \in Responses :
    LET res == download(fs, destination, if_exists, r)
    IN  (~res.raised /\ ~res.flag) => res.fs = fs

=============================================================================
